---- MODULE Spec2Model ----
(***************************************************************************)
(* The corn-yield ETL scripts: the USDA yield cleaner                      *)
(* (clean_usda_corn_yield.py), the NASA POWER weather fetcher              *)
(* (download_us_weather_power.py) and the two yield/weather mergers        *)
(* (merge_yield_weather.py, fix_weather_and_merge.py).                     *)
(*                                                                         *)
(* A CSV file is a table of text cells: a header (the column names in      *)
(* file order) and rows, each a function from column name to a cell.  A    *)
(* cell is a sequence of one-character strings; the empty cell <<>> is     *)
(* what pandas reads as NaN.  In a DataFrame a numeric cell is NaN (<<>>)  *)
(* or <<n>>, a mean is the exact quotient <<num, den>>, and a column       *)
(* after astype(int) holds plain integers.                                 *)
(***************************************************************************)
EXTENDS Integers, Sequences, FiniteSets, TLC

VARIABLES
    rawCsv,      \* usda_corn_yield_state_year.csv (INPUT_CSV of the cleaner)
    yieldCsv,    \* usda_corn_yield_clean.csv (OUTPUT_CSV / YIELD_FILE)
    monthlyCsv,  \* usa_state_monthly_weather_2000_2025.csv
    growingCsv,  \* usa_state_yearly_weather_growing_2000_2025.csv
    finalCsv,    \* final_corn_yield_weather.csv
    fixedCsv,    \* final_corn_yield_weather_fixed.csv
    exc,         \* per script: the exception that ended its last run, or NoExc
    ran,         \* per script: the number of its runs so far
    pc,          \* the fetcher's position
    todo,        \* the fetcher's loop: states_to_use not yet iterated
    rows,        \* the fetcher's rows list
    failed,      \* the fetcher's failed list
    trace        \* the fetcher's requests and sleeps, in order

vars == <<rawCsv, yieldCsv, monthlyCsv, growingCsv, finalCsv, fixedCsv,
          exc, ran, pc, todo, rows, failed, trace>>

(***************************************************************************)
(* Bounds of the model.                                                    *)
(***************************************************************************)
MaxRawRows == 2
MaxRuns == 2
MaxYieldRows == 2
MaxWeatherRows == 2
MaxAggRows == 3
MaxYears == 2

(***************************************************************************)
(* Sequences and text.                                                     *)
(***************************************************************************)
Range(s) == {s[i] : i \in DOMAIN s}

RECURSIVE SubSeqAt(_, _, _)
\* The elements of s at the indexes in keep, from index i on, in order.
SubSeqAt(s, keep, i) ==
    IF i > Len(s) THEN <<>>
    ELSE (IF i \in keep THEN <<s[i]>> ELSE <<>>) \o SubSeqAt(s, keep, i + 1)

\* The characters of the model's texts in code-point order.
CharOrder ==
    <<" ", ",", "-", "0", "1", "2", "3", "4", "5", "6", "7", "8", "9",
      "A", "H", "I", "N", "O", "W", "a", "h", "i", "n", "o", "w", "x">>

\* The place of each character in that order.
CodePoint ==
    [c \in Range(CharOrder) |-> CHOOSE k \in DOMAIN CharOrder : CharOrder[k] = c]

Ord(c) == CodePoint[c]

LowerCase == <<"a", "h", "i", "n", "o", "w", "x">>
UpperCase == <<"A", "H", "I", "N", "O", "W", "X">>

\* The upper-case form of each character.
UpperOf ==
    [c \in Range(CharOrder) |->
        IF \E k \in DOMAIN LowerCase : LowerCase[k] = c
        THEN UpperCase[CHOOSE k \in DOMAIN LowerCase : LowerCase[k] = c]
        ELSE c]

CharUpper(c) == UpperOf[c]

\* str.upper()
StrUpper(s) == [i \in DOMAIN s |-> CharUpper(s[i])]

\* str.strip(): leading and trailing whitespace removed.
StrStrip(s) ==
    LET ink == {i \in DOMAIN s : s[i] # " "}
    IN  IF ink = {} THEN <<>>
        ELSE LET lo == CHOOSE i \in ink : \A j \in ink : i <= j
                 hi == CHOOSE i \in ink : \A j \in ink : j <= i
             IN  SubSeq(s, lo, hi)

\* str.replace(old, "") for a one-character old.
StrRemove(s, old) == SelectSeq(s, LAMBDA c : c # old)

\* Python's string order: lexicographic by code point.
StrLess(a, b) ==
    LET n == IF Len(a) < Len(b) THEN Len(a) ELSE Len(b)
        differ == {k \in 1..n : a[k] # b[k]}
    IN  IF differ = {} THEN Len(a) < Len(b)
        ELSE LET k == CHOOSE i \in differ : \A j \in differ : i <= j
             IN  Ord(a[k]) < Ord(b[k])

(***************************************************************************)
(* Numbers as text: pd.to_numeric(errors="coerce") and to_csv.             *)
(***************************************************************************)
NaN == <<>>

IsNull(c) == c = NaN

Digits == <<"0", "1", "2", "3", "4", "5", "6", "7", "8", "9">>

IsDigit(c) == c \in Range(Digits)

\* The value of each digit.
DigitValues ==
    [c \in Range(Digits) |-> (CHOOSE d \in DOMAIN Digits : Digits[d] = c) - 1]

DigitVal(c) == DigitValues[c]

RECURSIVE DigitsVal(_)
DigitsVal(s) ==
    IF s = <<>> THEN 0
    ELSE DigitsVal(SubSeq(s, 1, Len(s) - 1)) * 10 + DigitVal(s[Len(s)])

\* An optional sign and at least one digit.
IsIntLiteral(s) ==
    LET body == IF s # <<>> /\ s[1] = "-" THEN Tail(s) ELSE s
    IN  body # <<>> /\ \A i \in DOMAIN body : IsDigit(body[i])

\* pd.to_numeric(..., errors="coerce") of one cell: NaN or <<n>>.
ToNumeric(s) ==
    IF ~IsIntLiteral(s) THEN NaN
    ELSE IF s[1] = "-" THEN <<0 - DigitsVal(Tail(s))>>
    ELSE <<DigitsVal(s)>>

\* .astype(str) of one cell: NaN becomes the text nan.
AsStr(c) == IF IsNull(c) THEN <<"n", "a", "n">> ELSE c

RECURSIVE FormatNat(_)
FormatNat(n) ==
    IF n < 10 THEN <<Digits[n + 1]>>
    ELSE FormatNat(n \div 10) \o <<Digits[(n % 10) + 1]>>

\* to_csv of an integer.
FormatInt(n) == IF n < 0 THEN <<"-">> \o FormatNat(0 - n) ELSE FormatNat(n)

\* to_csv of a numeric cell: NaN is written as the empty cell.
FormatNum(c) == IF IsNull(c) THEN <<>> ELSE FormatInt(c[1])

(***************************************************************************)
(* Files, exceptions.                                                      *)
(***************************************************************************)
NoFile == [exists |-> FALSE, columns |-> <<>>, rows |-> <<>>]

File(columns, rws) == [exists |-> TRUE, columns |-> columns, rows |-> rws]

NoExc == [type |-> "none", names |-> <<>>, found |-> <<>>]

Raised(type, names, found) == [type |-> type, names |-> names, found |-> found]

Scripts == {"clean", "merge", "fix", "fetch"}

\* A script's run ended normally.
Exit0(script) ==
    /\ exc' = [exc EXCEPT ![script] = NoExc]
    /\ ran' = [ran EXCEPT ![script] = @ + 1]

\* A script's run ended with an unhandled exception.
Raise(script, e) ==
    /\ exc' = [exc EXCEPT ![script] = e]
    /\ ran' = [ran EXCEPT ![script] = @ + 1]

\* The script's last run ended normally.
Ok(script) == ran[script] > 0 /\ exc[script] = NoExc

\* The script's last run ended with an unhandled exception.
Aborted(script) == ran[script] > 0 /\ exc[script] # NoExc

(***************************************************************************)
(* DataFrame operations shared by the scripts.                             *)
(***************************************************************************)
\* df.dropna(subset=...)
DropNa(rws, subset) ==
    SelectSeq(rws, LAMBDA r : \A c \in subset : ~IsNull(r[c]))

\* The (State, Year) key of a row.
Key(r) == <<r.State, r.Year>>

\* df.drop_duplicates(subset=["State", "Year"]): keep="first".
DropDuplicates(rws) ==
    SubSeqAt(rws, {i \in DOMAIN rws :
                      \A j \in 1..(i - 1) : Key(rws[j]) # Key(rws[i])}, 1)

\* The order of sort_values(["State", "Year"]).
KeyLess(r1, r2) ==
    \/ StrLess(r1.State, r2.State)
    \/ r1.State = r2.State /\ r1.Year < r2.Year

\* r put into the sorted rows after every row that is not greater.
SortedInsert(sorted, r) ==
    LET p == Cardinality({i \in DOMAIN sorted : ~KeyLess(r, sorted[i])})
    IN  SubSeq(sorted, 1, p) \o <<r>> \o SubSeq(sorted, p + 1, Len(sorted))

RECURSIVE SortValues(_)
\* df.sort_values(["State", "Year"]): ascending, rows of equal keys keep their
\* order (a multi-column sort is a lexsort).
SortValues(rws) ==
    IF rws = <<>> THEN <<>>
    ELSE SortedInsert(SortValues(SubSeq(rws, 1, Len(rws) - 1)), rws[Len(rws)])

(***************************************************************************)
(* clean_usda_corn_yield.py                                                *)
(***************************************************************************)
keep_cols == <<"Year", "State", "Value">>

\* Mutant of Missing: only the first missing name is reported.
MissingFirstOnly(columns, required) ==
    LET all == SelectSeq(required, LAMBDA c : c \notin Range(columns))
    IN  IF all = <<>> THEN <<>> ELSE <<all[1]>>

\* The names of required that are not columns of the table, in required's order.
Missing(columns, required) ==
    SelectSeq(required, LAMBDA c : c \notin Range(columns))

\* Mutant of CleanCells: State is upper-cased but not stripped.
CleanCellsNoStrip(r) ==
    [Year |-> ToNumeric(r["Year"]),
     State |-> StrUpper(AsStr(r["State"])),
     corn_yield_bu_acre |->
         ToNumeric(StrStrip(StrRemove(AsStr(r["Value"]), ",")))]

\* Lines 17-37 on one row: select and rename the columns, coerce Year, strip
\* the thousands separators of Value and coerce it, normalize State.
CleanCells(r) ==
    [Year |-> ToNumeric(r["Year"]),
     State |-> StrUpper(StrStrip(AsStr(r["State"]))),
     corn_yield_bu_acre |->
         ToNumeric(StrStrip(StrRemove(AsStr(r["Value"]), ",")))]

\* Line 40: drop the rows with a missing Year or yield.
CleanDropNa(rws) == DropNa(rws, {"Year", "corn_yield_bu_acre"})

\* Line 43: Year as a regular int.
YearAsInt(r) == [r EXCEPT !.Year = r.Year[1]]

\* Mutant of CleanDropDuplicates: keep="last".
CleanDropDuplicatesKeepLast(rws) ==
    SubSeqAt(rws, {i \in DOMAIN rws :
                      \A j \in (i + 1)..Len(rws) : Key(rws[j]) # Key(rws[i])}, 1)

\* Line 46: df.drop_duplicates(subset=["Year", "State"]).
CleanDropDuplicates(rws) == DropDuplicates(rws)

\* Line 49: df.sort_values(["State", "Year"]).reset_index(drop=True).
CleanSort(rws) == SortValues(rws)

\* Lines 17-49: the DataFrame the cleaner saves.
CleanDf(raw) ==
    LET cells == [i \in DOMAIN raw.rows |-> CleanCells(raw.rows[i])]
        kept == CleanDropNa(cells)
        ints == [i \in DOMAIN kept |-> YearAsInt(kept[i])]
    IN  CleanSort(CleanDropDuplicates(ints))

YieldColumns == <<"Year", "State", "corn_yield_bu_acre">>

\* Line 52: df.to_csv(OUTPUT_CSV, index=False).
CleanToCsv(df) ==
    File(YieldColumns,
         [i \in DOMAIN df |->
             [c \in Range(YieldColumns) |->
                 CASE c = "Year" -> FormatInt(df[i].Year)
                   [] c = "State" -> df[i].State
                   [] OTHER -> FormatNum(df[i].corn_yield_bu_acre)]])

\* Mutant of CleanOutput: the rows are appended to the file already there.
CleanOutputAppend ==
    File(YieldColumns, yieldCsv.rows \o CleanToCsv(CleanDf(rawCsv)).rows)

\* The file the cleaner leaves at OUTPUT_CSV when it reaches line 52.
CleanOutput == CleanToCsv(CleanDf(rawCsv))

\* One run of the script.
RunCleaner ==
    /\ ran["clean"] < MaxRuns
    /\ rawCsv.exists
    /\ LET missing == Missing(rawCsv.columns, keep_cols)
       IN  IF missing # <<>>
           THEN /\ Raise("clean", Raised("ValueError", missing, rawCsv.columns))
                /\ UNCHANGED yieldCsv
           ELSE /\ yieldCsv' = CleanOutput
                /\ Exit0("clean")
    /\ UNCHANGED <<rawCsv, monthlyCsv, growingCsv, finalCsv, fixedCsv,
                   pc, todo, rows, failed, trace>>

(***************************************************************************)
(* The cleaner on bounded raw extracts.                                    *)
(***************************************************************************)
IOWA == <<"I", "O", "W", "A">>
OHIO == <<"O", "H", "I", "O">>

RawHeaders ==
    { <<"Year", "State", "Value">>,
      <<"Program", "Year", "State">>,
      <<"State", "Value">>,
      <<"Program">> }

RawCells ==
    [Year |-> { <<"2", "0", "0", "0">>, <<"1", "9", "9", "9">> },
     State |-> { IOWA, <<" ", "i", "o", "w", "a">>, OHIO },
     Value |-> { <<"9">>, <<"1", ",", "2">>, <<"-", "5">> },
     Program |-> { <<"x">> }]

\* Rows with a Year that is no number, an empty State, a Value that is no
\* number.
RawOddRows ==
    { [Year |-> <<"x">>, State |-> IOWA, Value |-> <<"9">>, Program |-> <<"x">>],
      [Year |-> <<"2", "0", "0", "0">>, State |-> <<>>, Value |-> <<"9">>,
       Program |-> <<"x">>],
      [Year |-> <<"2", "0", "0", "0">>, State |-> IOWA, Value |-> <<"x">>,
       Program |-> <<"x">>] }

RECURSIVE RowsOf(_, _)
\* The rows a file with header h can hold, its cells drawn from cells[c].
RowsOf(h, cells) ==
    IF h = <<>> THEN { [c \in {} |-> <<>>] }
    ELSE { [c \in DOMAIN r \cup {h[1]} |-> IF c = h[1] THEN v ELSE r[c]] :
               r \in RowsOf(Tail(h), cells), v \in cells[h[1]] }

\* The rows of a raw extract, by header.
RawRows ==
    [h \in RawHeaders |->
        RowsOf(h, RawCells) \cup { [c \in Range(h) |-> r[c]] : r \in RawOddRows }]

NeverRan == [s \in Scripts |-> 0]
NoExcs == [s \in Scripts |-> NoExc]

\* The fetcher before its run.
FetcherIdle ==
    /\ pc = "start"
    /\ todo = <<>>
    /\ rows = <<>>
    /\ failed = <<>>
    /\ trace = <<>>

InitClean ==
    /\ \E h \in RawHeaders : \E n \in 0..MaxRawRows :
           \E rws \in [1..n -> RawRows[h]] : rawCsv = File(h, rws)
    /\ yieldCsv = NoFile
    /\ monthlyCsv = NoFile
    /\ growingCsv = NoFile
    /\ finalCsv = NoFile
    /\ fixedCsv = NoFile
    /\ exc = NoExcs
    /\ ran = NeverRan
    /\ FetcherIdle

NextClean == RunCleaner

SpecClean == InitClean /\ [][NextClean]_vars

(***************************************************************************)
(* Properties of the cleaner.                                              *)
(***************************************************************************)
\* The yield a raw row carries, after lines 28-34.
RawYield(r) == ToNumeric(StrStrip(StrRemove(AsStr(r["Value"]), ",")))

\* The raw row survives the null-drop of line 40.
RawValid(r) == IsIntLiteral(r["Year"]) /\ ~IsNull(RawYield(r))

\* The normalized (State, Year) of a raw row.
RawKey(r) == <<StrUpper(StrStrip(AsStr(r["State"]))), ToNumeric(r["Year"])>>

\* C3: after a run the cleaner completes, every row of the clean yield table
\* has a State without leading or trailing blanks and without lower-case
\* letters, a Year cell that is an unsigned or signed run of digits (never
\* empty), and no two rows have the same (State, Year).
C3_CleanRowsNormalizedUnique ==
    Ok("clean") =>
        /\ \A i \in DOMAIN yieldCsv.rows :
              LET st == yieldCsv.rows[i]["State"]
                  yr == yieldCsv.rows[i]["Year"]
              IN  /\ st # <<>> => st[1] # " " /\ st[Len(st)] # " "
                  /\ \A k \in DOMAIN st : st[k] \notin Range(LowerCase)
                  /\ yr # <<>>
                  /\ \A k \in DOMAIN yr : IsDigit(yr[k]) \/ (k = 1 /\ yr[k] = "-")
                  /\ \E k \in DOMAIN yr : IsDigit(yr[k])
        /\ \A i, j \in DOMAIN yieldCsv.rows :
              i # j => \/ yieldCsv.rows[i]["State"] # yieldCsv.rows[j]["State"]
                       \/ yieldCsv.rows[i]["Year"] # yieldCsv.rows[j]["Year"]

\* C3's case: raw rows " iowa" and "IOWA" of the same year, both valid,
\* collapse to one clean row.
C3_Witness ==
    /\ Ok("clean")
    /\ Len(rawCsv.rows) = 2
    /\ rawCsv.rows[1]["State"] = <<" ", "i", "o", "w", "a">>
    /\ rawCsv.rows[2]["State"] = IOWA
    /\ rawCsv.rows[1]["Year"] = rawCsv.rows[2]["Year"]
    /\ RawValid(rawCsv.rows[1]) /\ RawValid(rawCsv.rows[2])
    /\ Len(yieldCsv.rows) = 1
    /\ yieldCsv.rows[1]["State"] = IOWA

\* C4: after a run the cleaner completes, corn_yield_bu_acre is non-negative
\* in every row of the clean yield table.
C4_YieldNonNegative ==
    Ok("clean") =>
        \A i \in DOMAIN yieldCsv.rows :
            ToNumeric(yieldCsv.rows[i]["corn_yield_bu_acre"])[1] >= 0

\* C5: when the raw input lacks one of Year, State, Value, a run of the
\* cleaner ends with a ValueError that names exactly the missing columns and
\* the columns found, and the clean CSV is not written.
C5_MissingColumnAborts ==
    (ran["clean"] > 0 /\ \E c \in {"Year", "State", "Value"} :
                             c \notin Range(rawCsv.columns)) =>
        /\ exc["clean"].type = "ValueError"
        /\ Range(exc["clean"].names) =
               {c \in {"Year", "State", "Value"} : c \notin Range(rawCsv.columns)}
        /\ exc["clean"].found = rawCsv.columns
        /\ ~yieldCsv.exists

\* C5's case: the cleaner has run on an extract with rows and without Value.
C5_Witness ==
    /\ ran["clean"] > 0
    /\ "Value" \notin Range(rawCsv.columns)
    /\ "Year" \in Range(rawCsv.columns)
    /\ Len(rawCsv.rows) > 0
    /\ Aborted("clean")

\* C8: after a run the cleaner completes, every raw row that survives the
\* null-drop has exactly one clean row with its normalized (State, Year), and
\* that row carries the yield of the first surviving raw row, in raw row order,
\* with that key.
C8_FirstOccurrenceSurvives ==
    Ok("clean") =>
        \A i \in DOMAIN rawCsv.rows :
            RawValid(rawCsv.rows[i]) =>
                LET same == {j \in DOMAIN rawCsv.rows :
                                /\ RawValid(rawCsv.rows[j])
                                /\ RawKey(rawCsv.rows[j]) = RawKey(rawCsv.rows[i])}
                    first == CHOOSE j \in same : \A k \in same : j <= k
                    out == {k \in DOMAIN yieldCsv.rows :
                               /\ yieldCsv.rows[k]["State"] = RawKey(rawCsv.rows[i])[1]
                               /\ ToNumeric(yieldCsv.rows[k]["Year"])
                                      = RawKey(rawCsv.rows[i])[2]}
                IN  /\ Cardinality(out) = 1
                    /\ \A k \in out :
                          ToNumeric(yieldCsv.rows[k]["corn_yield_bu_acre"])
                              = RawYield(rawCsv.rows[first])

\* C8's case: two surviving raw rows with the same normalized key and
\* different yields; the clean table holds the first one's yield.
C8_Witness ==
    /\ Ok("clean")
    /\ Len(rawCsv.rows) = 2
    /\ RawValid(rawCsv.rows[1]) /\ RawValid(rawCsv.rows[2])
    /\ RawKey(rawCsv.rows[1]) = RawKey(rawCsv.rows[2])
    /\ RawYield(rawCsv.rows[1]) # RawYield(rawCsv.rows[2])
    /\ Len(yieldCsv.rows) = 1
    /\ ToNumeric(yieldCsv.rows[1]["corn_yield_bu_acre"]) = RawYield(rawCsv.rows[1])

GROWING_MONTHS == {4, 5, 6, 7, 8, 9}

YieldRequired == <<"Year", "State", "corn_yield_bu_acre">>
WeatherRequired == <<"State", "Year", "Month", "T2M", "PRECTOTCORR">>

\* The order in which fix_weather_and_merge.py indexes the yield columns.
FixYieldAccess == <<"State", "Year", "corn_yield_bu_acre">>

RECURSIVE SumSeq(_)
SumSeq(xs) == IF xs = <<>> THEN 0 ELSE xs[1] + SumSeq(Tail(xs))

RECURSIVE GCD(_, _)
GCD(a, b) == IF b = 0 THEN a ELSE GCD(b, a % b)

Abs(n) == IF n < 0 THEN 0 - n ELSE n

\* The values of the non-null cells of a column, in row order.
NonNull(rws, col) ==
    LET kept == SelectSeq(rws, LAMBDA r : ~IsNull(r[col]))
    IN  [i \in DOMAIN kept |-> kept[i][col][1]]

\* Series.mean(): NaN of no values, else the quotient sum/count in lowest terms.
Mean(xs) ==
    IF xs = <<>> THEN NaN
    ELSE LET g == GCD(Abs(SumSeq(xs)), Len(xs))
         IN  <<SumSeq(xs) \div g, Len(xs) \div g>>

\* calendar.isleap
IsLeap(year) == (year % 4 = 0 /\ year % 100 # 0) \/ year % 400 = 0

\* calendar.monthrange(year, month)[1] for a month of 1..12.
get_days_in_month(year, month) ==
    CASE month = 2 -> IF IsLeap(year) THEN 29 ELSE 28
      [] month \in {4, 6, 9, 11} -> 30
      [] OTHER -> 31

\* Yield rows after the coercions: State normalized, Year and yield numeric;
\* read_csv keeps every other column of the file, its cells as they are.
YieldCells(r) ==
    [State |-> StrUpper(StrStrip(AsStr(r["State"]))),
     Year |-> ToNumeric(r["Year"]),
     corn_yield_bu_acre |-> ToNumeric(r["corn_yield_bu_acre"]),
     other |-> [c \in DOMAIN r \ Range(YieldRequired) |-> r[c]]]

\* The yield table after dropna and Year.astype(int); no deduplication.
\* State is in dropna's subset, but after astype(str) it is never NaN.
LoadYield(f) ==
    LET cells == [i \in DOMAIN f.rows |-> YieldCells(f.rows[i])]
        kept == DropNa(cells, {"Year", "corn_yield_bu_acre"})
    IN  [i \in DOMAIN kept |-> [kept[i] EXCEPT !.Year = kept[i].Year[1]]]

\* Monthly weather rows after the coercions.
WeatherCells(r) ==
    [State |-> StrUpper(StrStrip(AsStr(r["State"]))),
     Year |-> ToNumeric(r["Year"]),
     Month |-> ToNumeric(r["Month"]),
     T2M |-> ToNumeric(r["T2M"]),
     PRECTOTCORR |-> ToNumeric(r["PRECTOTCORR"])]

\* The monthly table after dropna, Year.astype(int) and Month.astype(int).
\* State is in dropna's subset, but after astype(str) it is never NaN.
LoadWeather(f) ==
    LET cells == [i \in DOMAIN f.rows |-> WeatherCells(f.rows[i])]
        kept == DropNa(cells, {"Year", "Month", "T2M", "PRECTOTCORR"})
    IN  [i \in DOMAIN kept |->
            [kept[i] EXCEPT !.Year = kept[i].Year[1], !.Month = kept[i].Month[1]]]

\* Mutant of GrowingFilter: the season starts in March.
GrowingFilterFromMarch(w) == SelectSeq(w, LAMBDA r : r.Month \in 3..9)

\* w[w["Month"].isin(GROWING_MONTHS)]
GrowingFilter(w) == SelectSeq(w, LAMBDA r : r.Month \in GROWING_MONTHS)

\* .groupby(["State", "Year"], as_index=False).agg(mean of T2M, sum of the
\* rain column): one row per key, keys ascending; mean and sum skip NaN.
GroupByAgg(w, rain) ==
    LET keys == SortValues(DropDuplicates(w))
    IN  [k \in DOMAIN keys |->
            LET grp == SelectSeq(w, LAMBDA r : Key(r) = Key(keys[k]))
            IN  [State |-> keys[k].State,
                 Year |-> keys[k].Year,
                 avg_temp_growing |-> Mean(NonNull(grp, "T2M")),
                 total_rain_growing |-> <<SumSeq(NonNull(grp, rain))>>]]

\* Mutant of InnerMerge: the join is on State alone.
InnerMergeOnState(left, right) ==
    LET joined(l) ==
            LET m == SelectSeq(right, LAMBDA r : r.State = l.State)
            IN  [i \in DOMAIN m |->
                    [State |-> l.State,
                     Year |-> l.Year,
                     corn_yield_bu_acre |-> l.corn_yield_bu_acre,
                     other |-> l.other,
                     avg_temp_growing |-> m[i].avg_temp_growing,
                     total_rain_growing |-> m[i].total_rain_growing]]
        F[i \in 0..Len(left)] ==
            IF i = 0 THEN <<>> ELSE F[i - 1] \o joined(left[i])
    IN  F[Len(left)]

\* left.merge(right, on=["State", "Year"], how="inner"): the left rows in
\* order, each once per right row with its key.
InnerMerge(left, right) ==
    LET joined(l) ==
            LET m == SelectSeq(right, LAMBDA r : Key(r) = Key(l))
            IN  [i \in DOMAIN m |->
                    [State |-> l.State,
                     Year |-> l.Year,
                     corn_yield_bu_acre |-> l.corn_yield_bu_acre,
                     other |-> l.other,
                     avg_temp_growing |-> m[i].avg_temp_growing,
                     total_rain_growing |-> m[i].total_rain_growing]]
        F[i \in 0..Len(left)] ==
            IF i = 0 THEN <<>> ELSE F[i - 1] \o joined(left[i])
    IN  F[Len(left)]

\* The columns of the merged table: those of the yield file, then the
\* aggregates.
FinalColumns(f) == f.columns \o <<"avg_temp_growing", "total_rain_growing">>

GrowingColumns ==
    <<"State", "Year", "avg_temp_growing", "total_rain_growing">>

\* The required columns of the merged table that can hold NaN: State is a
\* string and Year an int column.
FinalNullable == {"corn_yield_bu_acre", "avg_temp_growing", "total_rain_growing"}

\* final.dropna(): no subset, so a NaN in any column drops the row, the
\* columns the yield file has beside the required ones included.
FinalDropNa(final) ==
    SelectSeq(DropNa(final, FinalNullable),
              LAMBDA r : \A c \in DOMAIN r.other : ~IsNull(r.other[c]))

\* Mutant of FinalChain: the final sort is left out.
FinalChainNoSort(final) ==
    DropDuplicates(FinalDropNa(final))

\* final.dropna().drop_duplicates(subset=["State", "Year"])
\*      .sort_values(["State", "Year"]).reset_index(drop=True)
FinalChain(final) ==
    SortValues(DropDuplicates(FinalDropNa(final)))

(***************************************************************************)
(* merge_yield_weather.py (the raw-sum variant).                           *)
(***************************************************************************)
\* Lines 40-45: the cleaned, deduplicated yield table.
MergeYieldDf(f) == DropDuplicates(LoadYield(f))

\* Lines 82-89: the growing-season table, rain as the sum of PRECTOTCORR.
MergeGrowing(w) == GroupByAgg(GrowingFilter(w), "PRECTOTCORR")

\* Lines 104-105: the final dataset, from yield_df and w_growing.
MergeFinal(yield_df, w_growing) ==
    FinalChain(InnerMerge(yield_df, w_growing))

\* Lines 36-38 and 58-60: the first required column the file lacks.
MergeColumnCheck(f, required) ==
    LET missing == Missing(f.columns, required)
    IN  Raised("ValueError", <<missing[1]>>, f.columns)

\* One run of merge_yield_weather.py.
RunMerge ==
    /\ ran["merge"] = 0
    /\ yieldCsv.exists /\ monthlyCsv.exists
    /\ IF Missing(yieldCsv.columns, YieldRequired) # <<>>
       THEN /\ Raise("merge", MergeColumnCheck(yieldCsv, YieldRequired))
            /\ UNCHANGED <<growingCsv, finalCsv>>
       ELSE IF Missing(monthlyCsv.columns, WeatherRequired) # <<>>
       THEN /\ Raise("merge", MergeColumnCheck(monthlyCsv, WeatherRequired))
            /\ UNCHANGED <<growingCsv, finalCsv>>
       ELSE LET w_growing == MergeGrowing(LoadWeather(monthlyCsv))
            IN  /\ growingCsv' = File(GrowingColumns, w_growing)
                /\ finalCsv' = File(FinalColumns(yieldCsv),
                                    MergeFinal(MergeYieldDf(yieldCsv), w_growing))
                /\ Exit0("merge")
    /\ UNCHANGED <<rawCsv, yieldCsv, monthlyCsv, fixedCsv,
                   pc, todo, rows, failed, trace>>

(***************************************************************************)
(* fix_weather_and_merge.py (the calendar-corrected variant).              *)
(***************************************************************************)
\* Lines 29-33: monthly_rain_mm = PRECTOTCORR * days in the month.
MonthlyRain(w) ==
    [i \in DOMAIN w |->
        [State |-> w[i].State, Year |-> w[i].Year, Month |-> w[i].Month,
         T2M |-> w[i].T2M, PRECTOTCORR |-> w[i].PRECTOTCORR,
         monthly_rain_mm |->
             <<w[i].PRECTOTCORR[1] * get_days_in_month(w[i].Year, w[i].Month)>>]]

\* Lines 36-43: the growing-season table, rain as the sum of monthly_rain_mm.
FixGrowing(w) == GroupByAgg(GrowingFilter(MonthlyRain(w)), "monthly_rain_mm")

\* Lines 54-55: the final dataset, from y and w_growing; y is not
\* deduplicated before the join.
FixFinal(y, w_growing) ==
    FinalChain(InnerMerge(y, w_growing))

\* w["State"], y["State"], ...: the first column indexed that the file lacks.
FixKeyError(f, access) ==
    Raised("KeyError", <<Missing(f.columns, access)[1]>>, <<>>)

\* calendar.monthrange raises IllegalMonthError for a month outside 1..12;
\* the lambda of line 31 runs on every row left after dropna.
IllegalMonths(w) == {i \in DOMAIN w : w[i].Month \notin 1..12}

\* The script got past line 33, with w the monthly table, and on to its end.
FixCompletes(w) ==
    IF Missing(yieldCsv.columns, FixYieldAccess) # <<>>
    THEN /\ Raise("fix", FixKeyError(yieldCsv, FixYieldAccess))
         /\ UNCHANGED fixedCsv
    ELSE /\ fixedCsv' = File(FinalColumns(yieldCsv),
                             FixFinal(LoadYield(yieldCsv), FixGrowing(w)))
         /\ Exit0("fix")

\* One run of fix_weather_and_merge.py.  When no monthly row is left after
\* dropna, w.apply(..., axis=1) returns a DataFrame instead of a Series; the
\* assignment of line 30 then raises ValueError or goes through, by the
\* pandas version.
RunFix ==
    /\ ran["fix"] = 0
    /\ yieldCsv.exists /\ monthlyCsv.exists
    /\ IF Missing(monthlyCsv.columns, WeatherRequired) # <<>>
       THEN /\ Raise("fix", FixKeyError(monthlyCsv, WeatherRequired))
            /\ UNCHANGED fixedCsv
       ELSE LET w == LoadWeather(monthlyCsv)
            IN  IF IllegalMonths(w) # {}
                THEN /\ Raise("fix", Raised("IllegalMonthError", <<>>, <<>>))
                     /\ UNCHANGED fixedCsv
                ELSE IF w = <<>>
                THEN \/ /\ Raise("fix", Raised("ValueError", <<>>, <<>>))
                        /\ UNCHANGED fixedCsv
                     \/ FixCompletes(w)
                ELSE FixCompletes(w)
    /\ UNCHANGED <<rawCsv, yieldCsv, monthlyCsv, growingCsv, finalCsv,
                   pc, todo, rows, failed, trace>>

(***************************************************************************)
(* The two mergers, each run once on the same bounded pair of input files. *)
(***************************************************************************)
YieldHeaders ==
    { YieldColumns, <<"State", "corn_yield_bu_acre">>, <<"Year">> }

YieldFileCells ==
    [State |-> { IOWA, <<" ", "o", "h", "i", "o">> },
     Year |-> { <<"2", "0", "2", "0">>, <<"1", "9", "9", "9">> },
     corn_yield_bu_acre |-> { <<"9">> }]

\* A yield row with an empty yield cell.
YieldOddRows ==
    { [State |-> IOWA, Year |-> <<"2", "0", "2", "0">>,
       corn_yield_bu_acre |-> <<>>] }

WeatherHeaders ==
    { WeatherRequired, <<"Month", "T2M", "PRECTOTCORR">>, <<"T2M">> }

WeatherFileCells ==
    [State |-> { IOWA, OHIO },
     Year |-> { <<"2", "0", "2", "0">>, <<"1", "9", "9", "9">> },
     Month |-> { <<"4">> },
     T2M |-> { <<"1", "0">> },
     PRECTOTCORR |-> { <<"3">> }]

\* The rows of a yield file and of a monthly weather file, by header.
YieldFileRows ==
    [h \in YieldHeaders |->
        RowsOf(h, YieldFileCells)
            \cup { [c \in Range(h) |-> r[c]] : r \in YieldOddRows }]
WeatherFileRows == [h \in WeatherHeaders |-> RowsOf(h, WeatherFileCells)]

InitMerge ==
    /\ rawCsv = NoFile
    /\ \E hy \in YieldHeaders, hw \in WeatherHeaders :
       \E ny \in 0..MaxYieldRows : \E nw \in 0..MaxWeatherRows :
       \E ry \in [1..ny -> YieldFileRows[hy]] :
       \E rw \in [1..nw -> WeatherFileRows[hw]] :
           /\ yieldCsv = File(hy, ry)
           /\ monthlyCsv = File(hw, rw)
    /\ growingCsv = NoFile
    /\ finalCsv = NoFile
    /\ fixedCsv = NoFile
    /\ exc = NoExcs
    /\ ran = NeverRan
    /\ FetcherIdle

NextMerge == RunMerge \/ RunFix

SpecMerge == InitMerge /\ [][NextMerge]_vars

(***************************************************************************)
(* The two mergers on monthly tables of one (State, Year): the aggregation.*)
(***************************************************************************)
AggYieldRow ==
    [State |-> IOWA, Year |-> <<"2", "0", "2", "0">>, corn_yield_bu_acre |-> <<"9">>]

AggWeatherCells ==
    [State |-> { IOWA },
     Year |-> { <<"2", "0", "2", "0">> },
     Month |-> { <<"4">>, <<"5">> },
     T2M |-> { <<"1", "0">>, <<"2", "0">> },
     PRECTOTCORR |-> { <<"3">>, <<"6">> }]

\* A row of March, outside the growing season.
MarchRow ==
    [State |-> IOWA, Year |-> <<"2", "0", "2", "0">>, Month |-> <<"3">>,
     T2M |-> <<"2", "0">>, PRECTOTCORR |-> <<"6">>]

\* A row whose Month is no calendar month.
BadMonthRow ==
    [State |-> IOWA, Year |-> <<"2", "0", "2", "0">>, Month |-> <<"1", "3">>,
     T2M |-> <<"1", "0">>, PRECTOTCORR |-> <<"3">>]

AggWeatherRows ==
    RowsOf(WeatherRequired, AggWeatherCells) \cup { MarchRow, BadMonthRow }

InitAgg ==
    /\ rawCsv = NoFile
    /\ yieldCsv = File(YieldColumns, <<AggYieldRow>>)
    /\ \E n \in 0..MaxAggRows : \E rw \in [1..n -> AggWeatherRows] :
           monthlyCsv = File(WeatherRequired, rw)
    /\ growingCsv = NoFile
    /\ finalCsv = NoFile
    /\ fixedCsv = NoFile
    /\ exc = NoExcs
    /\ ran = NeverRan
    /\ FetcherIdle

SpecAgg == InitAgg /\ [][NextMerge]_vars

(***************************************************************************)
(* Properties of the mergers.                                              *)
(***************************************************************************)
\* The (State, Year) of a row of an input file, State normalized.
FileKey(r) == <<StrUpper(StrStrip(AsStr(r["State"]))), ToNumeric(r["Year"])[1]>>

\* The keys of the yield rows that have a numeric Year and a numeric yield.
YieldKeys ==
    {FileKey(yieldCsv.rows[i]) :
        i \in {j \in DOMAIN yieldCsv.rows :
                  /\ IsIntLiteral(yieldCsv.rows[j]["Year"])
                  /\ IsIntLiteral(yieldCsv.rows[j]["corn_yield_bu_acre"])}}

\* The monthly rows that are complete and fall in April..September.
SeasonRows ==
    {j \in DOMAIN monthlyCsv.rows :
        /\ \A c \in {"Year", "Month", "T2M", "PRECTOTCORR"} :
              IsIntLiteral(monthlyCsv.rows[j][c])
        /\ ToNumeric(monthlyCsv.rows[j]["Month"])[1] \in 4..9}

\* The keys that have growing-season weather.
SeasonKeys == {FileKey(monthlyCsv.rows[j]) : j \in SeasonRows}

\* The keys of the rows of an output table.
KeysOf(f) == {<<f.rows[i].State, f.rows[i].Year>> : i \in DOMAIN f.rows}

\* C1: after a run either merger completes, every (State, Year) of its final
\* dataset is the key of a cleaned yield row and of a growing-season
\* aggregate; a key on one side only is not in the output.
C1_StrictInnerJoin ==
    /\ Ok("merge") => KeysOf(finalCsv) \subseteq YieldKeys \cap SeasonKeys
    /\ Ok("fix") => KeysOf(fixedCsv) \subseteq YieldKeys \cap SeasonKeys

\* C1's case: both mergers completed on files with a yield-only key, a
\* weather-only key and a joined key.
C1_Witness ==
    /\ Ok("merge") /\ Ok("fix")
    /\ YieldKeys \ SeasonKeys # {}
    /\ SeasonKeys \ YieldKeys # {}
    /\ KeysOf(finalCsv) # {}
    /\ KeysOf(fixedCsv) # {}

\* C6: when the yield file lacks one of Year, State, corn_yield_bu_acre or
\* the monthly file lacks one of State, Year, Month, T2M, PRECTOTCORR, a run
\* of either merger ends with a ValueError that names missing columns, and
\* none of its output files is written.
C6_MergersReportMissingColumns ==
    LET lacking == (Range(YieldRequired) \ Range(yieldCsv.columns))
                       \cup (Range(WeatherRequired) \ Range(monthlyCsv.columns))
    IN  lacking # {} =>
            /\ ran["merge"] > 0 =>
                  /\ exc["merge"].type = "ValueError"
                  /\ exc["merge"].names # <<>>
                  /\ Range(exc["merge"].names) \subseteq lacking
                  /\ ~growingCsv.exists /\ ~finalCsv.exists
            /\ ran["fix"] > 0 =>
                  /\ exc["fix"].type = "ValueError"
                  /\ exc["fix"].names # <<>>
                  /\ Range(exc["fix"].names) \subseteq lacking
                  /\ ~fixedCsv.exists

\* A final dataset without duplicate keys, without NaN, and in strictly
\* ascending (State, Year) order.
FinalWellFormed(f) ==
    /\ \A i, j \in DOMAIN f.rows :
          i # j => <<f.rows[i].State, f.rows[i].Year>>
                       # <<f.rows[j].State, f.rows[j].Year>>
    /\ \A i \in DOMAIN f.rows :
          /\ f.rows[i].corn_yield_bu_acre # NaN
          /\ f.rows[i].avg_temp_growing # NaN
          /\ f.rows[i].total_rain_growing # NaN
          /\ \A c \in DOMAIN f.rows[i].other : f.rows[i].other[c] # NaN
    /\ \A i, j \in DOMAIN f.rows :
          i < j => \/ StrLess(f.rows[i].State, f.rows[j].State)
                   \/ /\ f.rows[i].State = f.rows[j].State
                      /\ f.rows[i].Year < f.rows[j].Year

\* C10: after a run either merger completes, its final dataset has no two
\* rows with the same (State, Year), no NaN in any column, and its rows in
\* strictly ascending (State, Year) order.
C10_FinalUniqueNoNullSorted ==
    /\ Ok("merge") => FinalWellFormed(finalCsv)
    /\ Ok("fix") => FinalWellFormed(fixedCsv)

\* C10's case: both mergers completed on a yield file whose two rows are in
\* descending key order, both joined.
C10_Witness ==
    /\ Ok("merge") /\ Ok("fix")
    /\ Len(yieldCsv.rows) = 2
    /\ yieldCsv.rows[1]["State"] = <<" ", "o", "h", "i", "o">>
    /\ yieldCsv.rows[2]["State"] = IOWA
    /\ Len(finalCsv.rows) = 2
    /\ Len(fixedCsv.rows) = 2
    /\ finalCsv.rows[1].State = IOWA

RECURSIVE SumOver(_, _)
\* The sum of f over the indexes in S.
SumOver(S, f) ==
    IF S = {} THEN 0
    ELSE LET x == CHOOSE y \in S : TRUE IN f[x] + SumOver(S \ {x}, f)

\* The days of April..September.
SeasonDays == [m \in 4..9 |-> IF m \in {4, 6, 9} THEN 30 ELSE 31]

\* The complete growing-season monthly rows of a key.
SeasonRowsOf(key) == {j \in SeasonRows : FileKey(monthlyCsv.rows[j]) = key}

\* The monthly columns as numbers.
MonthOf == [j \in DOMAIN monthlyCsv.rows |-> ToNumeric(monthlyCsv.rows[j]["Month"])[1]]
TempOf == [j \in DOMAIN monthlyCsv.rows |-> ToNumeric(monthlyCsv.rows[j]["T2M"])[1]]
RainOf == [j \in DOMAIN monthlyCsv.rows |-> ToNumeric(monthlyCsv.rows[j]["PRECTOTCORR"])[1]]
RainDaysOf == [j \in SeasonRows |-> RainOf[j] * SeasonDays[MonthOf[j]]]

\* avg is the quotient sum/count of T2M over the rows in S.
IsMeanOf(avg, S) ==
    /\ avg # NaN
    /\ avg[2] > 0
    /\ avg[1] * Cardinality(S) = avg[2] * SumOver(S, TempOf)

\* C2: for every (State, Year) with April..September records, the raw-sum
\* merger's growing-season table and final dataset hold the mean of T2M and the
\* sum of PRECTOTCORR over exactly those records, and the calendar-corrected
\* merger's final dataset holds the same mean and the sum of PRECTOTCORR times
\* the days of each month; records of other months change neither.
C2_GrowingSeasonAggregation ==
    /\ Ok("merge") =>
          /\ KeysOf(growingCsv) = SeasonKeys
          /\ \A i \in DOMAIN growingCsv.rows :
                LET S == SeasonRowsOf(<<growingCsv.rows[i].State, growingCsv.rows[i].Year>>)
                IN  /\ IsMeanOf(growingCsv.rows[i].avg_temp_growing, S)
                    /\ growingCsv.rows[i].total_rain_growing = <<SumOver(S, RainOf)>>
          /\ \A i \in DOMAIN finalCsv.rows :
                LET S == SeasonRowsOf(<<finalCsv.rows[i].State, finalCsv.rows[i].Year>>)
                IN  /\ IsMeanOf(finalCsv.rows[i].avg_temp_growing, S)
                    /\ finalCsv.rows[i].total_rain_growing = <<SumOver(S, RainOf)>>
    /\ Ok("fix") =>
          /\ KeysOf(fixedCsv) = SeasonKeys \cap YieldKeys
          /\ \A i \in DOMAIN fixedCsv.rows :
                LET S == SeasonRowsOf(<<fixedCsv.rows[i].State, fixedCsv.rows[i].Year>>)
                IN  /\ IsMeanOf(fixedCsv.rows[i].avg_temp_growing, S)
                    /\ fixedCsv.rows[i].total_rain_growing = <<SumOver(S, RainDaysOf)>>

\* C2's case: March, April (T2M 10, rain 3) and May (T2M 20, rain 6) of one
\* (State, Year): mean 15, raw sum 9, calendar-corrected sum 3*30 + 6*31 = 276.
C2_Witness ==
    /\ Ok("merge") /\ Ok("fix")
    /\ Len(monthlyCsv.rows) = 3
    /\ MonthOf = <<3, 4, 5>>
    /\ TempOf[2] = 10 /\ RainOf[2] = 3
    /\ TempOf[3] = 20 /\ RainOf[3] = 6
    /\ Len(growingCsv.rows) = 1
    /\ growingCsv.rows[1].avg_temp_growing = <<15, 1>>
    /\ growingCsv.rows[1].total_rain_growing = <<9>>
    /\ Len(fixedCsv.rows) = 1
    /\ fixedCsv.rows[1].avg_temp_growing = <<15, 1>>
    /\ fixedCsv.rows[1].total_rain_growing = <<276>>

(***************************************************************************)
(* download_us_weather_power.py (the weather fetcher).                     *)
(***************************************************************************)
START_YEAR == 2000

\* END_YEAR is 2025 in the source; here the range is MaxYears years long.
END_YEAR == START_YEAR + MaxYears - 1

\* STATE_COORDS.keys(), cut to two of its states.
STATE_COORDS == { IOWA, OHIO }

RECURSIVE SortedStates(_)
\* sorted(S) of a set of state names.
SortedStates(S) ==
    IF S = {} THEN <<>>
    ELSE LET m == CHOOSE s \in S : \A t \in S \ {s} : StrLess(s, t)
         IN  <<m>> \o SortedStates(S \ {m})

\* Lines 88-98: the states of the yield file that have coordinates, sorted;
\* every state of STATE_COORDS when the file cannot be read or has no State.
states_to_use(f) ==
    IF ~f.exists \/ "State" \notin Range(f.columns)
    THEN SortedStates(STATE_COORDS)
    ELSE SortedStates({StrUpper(StrStrip(AsStr(f.rows[i]["State"]))) :
                           i \in DOMAIN f.rows} \cap STATE_COORDS)

\* What requests.get, raise_for_status and r.json() can raise.
RequestErrors == { "timeout", "500 Server Error", "Expecting value" }

\* The parameter object of a response: the parameters it holds and the
\* (parameter, year, month) keys it has no value for.
Payloads ==
    { [params |-> ps, gaps |-> g] :
        ps \in { {"T2M", "PRECTOTCORR"}, {"T2M"}, {"PRECTOTCORR"} },
        g \in { {},
                { <<"T2M", START_YEAR, 4>> },
                { <<q, START_YEAR, m>> :
                      q \in {"T2M", "PRECTOTCORR"}, m \in GROWING_MONTHS } } }

NoData == [params |-> {}, gaps |-> {}]

\* The outcomes of fetch_power_monthly: an exception or a parameter object.
Responses ==
    { [raises |-> e, data |-> NoData] : e \in RequestErrors }
        \cup { [raises |-> "", data |-> d] : d \in Payloads }

\* Lines 123-125: the text of the exception of the try block, "" when none.
FetchError(resp) ==
    IF resp.raises # "" THEN resp.raises
    ELSE IF "T2M" \notin resp.data.params THEN "'T2M'"
    ELSE IF "PRECTOTCORR" \notin resp.data.params THEN "'PRECTOTCORR'"
    ELSE ""

\* t2m.get(key), pr.get(key): None for a key the payload lacks.
PayloadGet(data, q, year, month) ==
    IF <<q, year, month>> \in data.gaps THEN NaN
    ELSE IF q = "T2M" THEN <<10 + month>>
    ELSE <<month>>

\* Lines 127-136: one row per year of the range and month of 1..12, in order.
StateRows(st, data) ==
    [i \in 1..((END_YEAR - START_YEAR + 1) * 12) |->
        LET year == START_YEAR + ((i - 1) \div 12)
            month == ((i - 1) % 12) + 1
        IN  [State |-> st, Year |-> year, Month |-> month,
             T2M |-> PayloadGet(data, "T2M", year, month),
             PRECTOTCORR |-> PayloadGet(data, "PRECTOTCORR", year, month)]]

\* Line 152: weather_df.to_csv, None and NaN written as empty cells.
FetchToCsv(df) ==
    [i \in DOMAIN df |->
        [State |-> df[i].State,
         Year |-> FormatInt(df[i].Year),
         Month |-> FormatInt(df[i].Month),
         T2M |-> FormatNum(df[i].T2M),
         PRECTOTCORR |-> FormatNum(df[i].PRECTOTCORR)]]

\* Lines 160-167: weather_growing, with no dropna before the aggregation.
FetchGrowing(df) == GroupByAgg(GrowingFilter(df), "PRECTOTCORR")

\* Lines 88-98 and 117-118.
SelectStates ==
    /\ pc = "start"
    /\ pc' = "loop"
    /\ todo' = states_to_use(yieldCsv)
    /\ rows' = <<>>
    /\ failed' = <<>>
    /\ trace' = <<>>
    /\ UNCHANGED <<rawCsv, yieldCsv, monthlyCsv, growingCsv, finalCsv, fixedCsv,
                   exc, ran>>

\* Lines 120-143: one iteration of the loop over states_to_use.
FetchState ==
    /\ pc = "loop"
    /\ todo # <<>>
    /\ \E resp \in Responses :
          LET st == Head(todo)
              request == [op |-> "request", st |-> st]
          IN  IF FetchError(resp) = ""
              THEN /\ rows' = rows \o StateRows(st, resp.data)
                   /\ trace' = trace \o <<request, [op |-> "sleep", st |-> st]>>
                   /\ UNCHANGED failed
              ELSE /\ failed' = Append(failed, <<st, FetchError(resp)>>)
                   /\ trace' = Append(trace, request)
                   /\ UNCHANGED rows
    /\ todo' = Tail(todo)
    /\ UNCHANGED <<rawCsv, yieldCsv, monthlyCsv, growingCsv, finalCsv, fixedCsv,
                   exc, ran, pc>>

\* Lines 145-169: DataFrame(rows) has no column when rows is empty, and
\* weather_df["T2M"] raises KeyError; else both tables are written.
WriteTables ==
    /\ pc = "loop"
    /\ todo = <<>>
    /\ pc' = "done"
    /\ IF rows = <<>>
       THEN /\ Raise("fetch", Raised("KeyError", <<"T2M">>, <<>>))
            /\ UNCHANGED <<monthlyCsv, growingCsv>>
       ELSE /\ monthlyCsv' = File(WeatherRequired, FetchToCsv(rows))
            /\ growingCsv' = File(GrowingColumns, FetchGrowing(rows))
            /\ Exit0("fetch")
    /\ UNCHANGED <<rawCsv, yieldCsv, finalCsv, fixedCsv, todo, rows, failed, trace>>

\* The State cells of the yield files the fetcher is run on.
FetchYieldCells ==
    [State |-> { IOWA, <<" ", "o", "h", "i", "o">>, <<>> },
     Year |-> { <<"2", "0", "0", "0">> },
     corn_yield_bu_acre |-> { <<"9">> }]

InitFetch ==
    /\ rawCsv = NoFile
    /\ \/ yieldCsv = NoFile
       \/ \E h \in { YieldColumns, <<"Year">> } : \E n \in 0..MaxYieldRows :
              \E rws \in [1..n -> RowsOf(h, FetchYieldCells)] :
                  yieldCsv = File(h, rws)
    /\ monthlyCsv = NoFile
    /\ growingCsv = NoFile
    /\ finalCsv = NoFile
    /\ fixedCsv = NoFile
    /\ exc = NoExcs
    /\ ran = NeverRan
    /\ FetcherIdle

NextFetch == SelectStates \/ FetchState \/ WriteTables

SpecFetch == InitFetch /\ [][NextFetch]_vars

(***************************************************************************)
(* Properties of the fetcher.                                              *)
(***************************************************************************)
\* The rows of a state in the fetcher's rows list.
RowsOfState(st) == SelectSeq(rows, LAMBDA r : r.State = st)

\* The states the failed list names.
FailedStates == {failed[i][1] : i \in DOMAIN failed}

\* The states a request was sent for.
Requested == {trace[i].st : i \in {j \in DOMAIN trace : trace[j].op = "request"}}

\* C7: when a run of the fetcher with at least one selected state has ended,
\* every selected state was requested; a state whose fetch failed is in the
\* failed list with an error text and has no monthly row; every other
\* selected state has exactly one row per year of the range and month of
\* 1..12; and the run has written the monthly and the growing-season table.
C7_StateFailureNonFatal ==
    (pc = "done" /\ states_to_use(yieldCsv) # <<>>) =>
        /\ \A st \in Range(states_to_use(yieldCsv)) :
              /\ st \in Requested
              /\ st \in FailedStates =>
                    /\ RowsOfState(st) = <<>>
                    /\ \E i \in DOMAIN failed : failed[i][1] = st /\ failed[i][2] # ""
              /\ st \notin FailedStates =>
                    /\ \A y \in START_YEAR..END_YEAR : \A m \in 1..12 :
                          Cardinality({i \in DOMAIN rows :
                                          /\ rows[i].State = st
                                          /\ rows[i].Year = y
                                          /\ rows[i].Month = m}) = 1
                    /\ Len(RowsOfState(st)) = (END_YEAR - START_YEAR + 1) * 12
        /\ Ok("fetch")
        /\ monthlyCsv.exists
        /\ growingCsv.exists

\* The positions of the trace that hold a request.
RequestsAt == {i \in DOMAIN trace : trace[i].op = "request"}

\* C11: in the fetcher's loop, between the request of a state and the request
\* of the next state the delay has elapsed, whether the first request failed
\* or succeeded; and when the run has ended every selected state was requested
\* exactly once.
C11_DelayAfterEveryRequest ==
    /\ \A i, j \in RequestsAt :
          i < j => \E k \in (i + 1)..(j - 1) :
                       trace[k] = [op |-> "sleep", st |-> trace[i].st]
    /\ pc = "done" =>
          \A st \in Range(states_to_use(yieldCsv)) :
              Cardinality({i \in RequestsAt : trace[i].st = st}) = 1

(***************************************************************************)
(* The fetcher followed by the mergers, on the monthly table it wrote.     *)
(***************************************************************************)
NextPipeline == NextFetch \/ RunMerge \/ RunFix

SpecPipeline == InitFetch /\ [][NextPipeline]_vars

\* The growing-season table f holds one row per key that has a complete
\* April..September record, with the mean of T2M and the sum of PRECTOTCORR
\* over the complete records of the key.
AggregatesCompleteRows(f) ==
    /\ KeysOf(f) = SeasonKeys
    /\ \A i \in DOMAIN f.rows :
          LET S == SeasonRowsOf(<<f.rows[i].State, f.rows[i].Year>>)
          IN  /\ IsMeanOf(f.rows[i].avg_temp_growing, S)
              /\ f.rows[i].total_rain_growing = <<SumOver(S, RainOf)>>

\* C12: the growing-season table the fetcher wrote, the one the raw-sum merger
\* wrote and the weather columns of the calendar-corrected final dataset are
\* aggregates over the monthly records with both T2M and PRECTOTCORR present,
\* with no row for a key without such a record; and the fetcher's table is
\* the table the raw-sum merger computes from the monthly table.
C12_NullsDroppedBeforeAggregation ==
    /\ (Ok("fetch") /\ ran["merge"] = 0) =>
          /\ AggregatesCompleteRows(growingCsv)
          /\ growingCsv.rows = MergeGrowing(LoadWeather(monthlyCsv))
    /\ Ok("merge") => AggregatesCompleteRows(growingCsv)
    /\ Ok("fix") =>
          /\ KeysOf(fixedCsv) = SeasonKeys \cap YieldKeys
          /\ \A i \in DOMAIN fixedCsv.rows :
                LET S == SeasonRowsOf(<<fixedCsv.rows[i].State, fixedCsv.rows[i].Year>>)
                IN  /\ IsMeanOf(fixedCsv.rows[i].avg_temp_growing, S)
                    /\ fixedCsv.rows[i].total_rain_growing = <<SumOver(S, RainDaysOf)>>

(***************************************************************************)
(* The two mergers on yield files with repeated keys.                      *)
(***************************************************************************)
\* Yield rows of one year: two states, two yields each.
DupYieldCells ==
    [State |-> { IOWA, <<" ", "o", "h", "i", "o">> },
     Year |-> { <<"2", "0", "2", "0">> },
     corn_yield_bu_acre |-> { <<"9">>, <<"8">> }]

\* Yield rows of one key with a Note cell, empty in some rows.
NoteYieldCells ==
    [State |-> { IOWA },
     Year |-> { <<"2", "0", "2", "0">> },
     corn_yield_bu_acre |-> { <<"9">>, <<"8">> },
     Note |-> { <<"x">>, <<>> }]

\* The header of a yield file with a Note column.
NoteColumns == YieldColumns \o <<"Note">>

DupYieldHeaders == { YieldColumns, NoteColumns }

DupYieldRows ==
    [h \in DupYieldHeaders |->
        IF h = YieldColumns
        THEN RowsOf(YieldColumns, DupYieldCells) \cup YieldOddRows
        ELSE RowsOf(NoteColumns, NoteYieldCells)]

\* Monthly rows of April of one year, two states.
DupWeatherCells ==
    [State |-> { IOWA, OHIO },
     Year |-> { <<"2", "0", "2", "0">> },
     Month |-> { <<"4">> },
     T2M |-> { <<"1", "0">> },
     PRECTOTCORR |-> { <<"3">> }]

\* A monthly row without a T2M value.
NullTempRow ==
    [State |-> IOWA, Year |-> <<"2", "0", "2", "0">>, Month |-> <<"4">>,
     T2M |-> <<>>, PRECTOTCORR |-> <<"3">>]

DupWeatherRows ==
    RowsOf(WeatherRequired, DupWeatherCells) \cup { BadMonthRow, NullTempRow }

InitDup ==
    /\ rawCsv = NoFile
    /\ \E ny \in 0..MaxYieldRows : \E nw \in 0..MaxWeatherRows :
       \E h \in DupYieldHeaders :
       \E ry \in [1..ny -> DupYieldRows[h]] : \E rw \in [1..nw -> DupWeatherRows] :
           /\ yieldCsv = File(h, ry)
           /\ monthlyCsv = File(WeatherRequired, rw)
    /\ growingCsv = NoFile
    /\ finalCsv = NoFile
    /\ fixedCsv = NoFile
    /\ exc = NoExcs
    /\ ran = NeverRan
    /\ FetcherIdle

SpecDup == InitDup /\ [][NextMerge]_vars

\* C13: when the raw-sum and the calendar-corrected merger have both
\* completed on the same yield file and monthly file, their final datasets
\* have the same columns and the same number of rows, and the rows at each
\* position have the same State, Year, corn_yield_bu_acre and
\* avg_temp_growing; only total_rain_growing may differ.
C13_MergersAgreeExceptRain ==
    (Ok("merge") /\ Ok("fix")) =>
        /\ finalCsv.columns = fixedCsv.columns
        /\ Len(finalCsv.rows) = Len(fixedCsv.rows)
        /\ \A i \in DOMAIN finalCsv.rows :
              /\ finalCsv.rows[i].State = fixedCsv.rows[i].State
              /\ finalCsv.rows[i].Year = fixedCsv.rows[i].Year
              /\ finalCsv.rows[i].corn_yield_bu_acre
                     = fixedCsv.rows[i].corn_yield_bu_acre
              /\ finalCsv.rows[i].avg_temp_growing
                     = fixedCsv.rows[i].avg_temp_growing

====
